---- MODULE Spec2Model ----
(***************************************************************************)
(* Stock screener back end (t212-backend).  Four revisions of one service  *)
(* are kept in the repository; each is a deployment the model can run:     *)
(*   "legacy"  - src/unnamed/part_000 lines 1-128   (getPrice, Promise.all)*)
(*   "history" - src/unnamed/part_000 lines 129-446 (quote + candles)      *)
(*   "quote"   - src/unnamed/part_001               (quote only)           *)
(*   "yahoo"   - src/server.js                      (multi-symbol quote)   *)
(* One POST /screen request is followed from its arrival to its response.  *)
(***************************************************************************)
EXTENDS Integers, Sequences, FiniteSets, TLC

\* ------------------------------------------------------------------------
\* Bounds of the model
\* ------------------------------------------------------------------------
\* universes of up to MaxShort symbols are enumerated over every symbol kind
MaxShort == 2
\* longer universes, up to MaxUniverse symbols, repeat one healthy symbol
MaxUniverse == 61
\* latency, in ms, of a provider call when the provider is not instantaneous
SlowFetch == 700
\* series of up to MaxSeries points are enumerated over every level
MaxSeries == 3
\* longer series, up to MaxHistory points, have one step between two levels
MaxHistory == 45

\* ------------------------------------------------------------------------
\* Program constants
\* ------------------------------------------------------------------------
\* universe.slice(0, 25)
MaxScreen == 25
\* await delay(2000) between two symbols of the history variant
HistoryDelay == 2000
\* await delay(50) between two symbols of the quote-only variant
QuoteDelay == 50
\* const batchSize = 100 of the Yahoo variant
batchSize == 100

\* ------------------------------------------------------------------------
\* JavaScript values: undefined, null, numbers (with NaN), booleans, strings
\* ------------------------------------------------------------------------
\* a number is the fraction v / d with d > 0, so that means and the factors
\* 0.95, 1.05, 1.02, 0.98 are exact
Undef == [t |-> "undefined", v |-> 0, d |-> 1, s |-> ""]
Null == [t |-> "null", v |-> 0, d |-> 1, s |-> ""]
NaN == [t |-> "number", v |-> 0, d |-> 1, s |-> "NaN"]
Rat(n, m) == [t |-> "number", v |-> n, d |-> m, s |-> ""]
Num(n) == Rat(n, 1)
Bool(b) == [t |-> "boolean", v |-> IF b THEN 1 ELSE 0, d |-> 1, s |-> ""]
Str(x) == [t |-> "string", v |-> 0, d |-> 1, s |-> x]
\* the string that spells the number n / m with a fixed count of decimals
NumStr(n, m) == [t |-> "string", v |-> n, d |-> m, s |-> "#"]

IsNaN(x) == x.t = "number" /\ x.s = "NaN"

\* x === y
StrictEq(x, y) ==
  /\ x.t = y.t
  /\ ~IsNaN(x) /\ ~IsNaN(y)
  /\ IF x.t = "number" THEN x.v * y.d = y.v * x.d ELSE x.v = y.v /\ x.d = y.d
  /\ x.s = y.s

\* !!x
Truthy(x) ==
  CASE x.t = "undefined" -> FALSE
    [] x.t = "null" -> FALSE
    [] x.t = "number" -> ~IsNaN(x) /\ x.v # 0
    [] x.t = "boolean" -> x.v = 1
    [] OTHER -> x.s # ""

\* Number(x); the only strings that spell a number are those toFixed makes
ToNumber(x) ==
  CASE x.t = "undefined" -> NaN
    [] x.t = "null" -> Num(0)
    [] x.t = "number" -> x
    [] x.t = "boolean" -> Num(x.v)
    [] OTHER -> IF x.s = "" THEN Num(0)
                ELSE IF x.s = "#" THEN Rat(x.v, x.d)
                ELSE NaN

\* a > b, a < b, a >= b, a <= b on numbers: false as soon as one side is NaN
NumGreater(a, b) == ~IsNaN(a) /\ ~IsNaN(b) /\ a.v * b.d > b.v * a.d
NumLess(a, b) == ~IsNaN(a) /\ ~IsNaN(b) /\ a.v * b.d < b.v * a.d
NumGeq(a, b) == ~IsNaN(a) /\ ~IsNaN(b) /\ a.v * b.d >= b.v * a.d
NumLeq(a, b) == ~IsNaN(a) /\ ~IsNaN(b) /\ a.v * b.d <= b.v * a.d

\* x > y, x < y, x >= y, x <= y on values that are not both strings
Greater(x, y) == NumGreater(ToNumber(x), ToNumber(y))
Less(x, y) == NumLess(ToNumber(x), ToNumber(y))
Geq(x, y) == NumGeq(ToNumber(x), ToNumber(y))
Leq(x, y) == NumLeq(ToNumber(x), ToNumber(y))

\* x * y and x - y
Mul(x, y) ==
  LET a == ToNumber(x)
      b == ToNumber(y)
  IN IF IsNaN(a) \/ IsNaN(b) THEN NaN ELSE Rat(a.v * b.v, a.d * b.d)
Sub(x, y) ==
  LET a == ToNumber(x)
      b == ToNumber(y)
  IN IF IsNaN(a) \/ IsNaN(b) THEN NaN ELSE Rat(a.v * b.d - b.v * a.d, a.d * b.d)

\* x / y; every division of the program is guarded by the truthiness of y
Div(x, y) ==
  LET a == ToNumber(x)
      b == ToNumber(y)
  IN IF IsNaN(a) \/ IsNaN(b) \/ b.v = 0 THEN NaN
     ELSE IF b.v > 0 THEN Rat(a.v * b.d, a.d * b.v)
     ELSE Rat((0 - a.v) * b.d, a.d * (0 - b.v))

\* 10 ^ digits
RECURSIVE Pow10(_)
Pow10(digits) == IF digits = 0 THEN 1 ELSE 10 * Pow10(digits - 1)

\* x.toFixed(digits) of a number: rounded half away from zero
ToFixed(x, digits) ==
  IF IsNaN(x) THEN Str("NaN")
  ELSE LET n == x.v * Pow10(digits)
           q == IF n >= 0 THEN (2 * n + x.d) \div (2 * x.d)
                ELSE 0 - ((2 * (0 - n) + x.d) \div (2 * x.d))
       IN NumStr(q, Pow10(digits))

\* item[name]
Get(item, name) == IF name \in DOMAIN item THEN item[name] ELSE Undef

\* prices.slice(-k)
Last(prices, k) ==
  IF Len(prices) <= k THEN prices
  ELSE SubSeq(prices, Len(prices) - k + 1, Len(prices))

\* prices.slice(-k, -5)
SliceBeforeLast5(prices, k) ==
  LET from == IF Len(prices) <= k THEN 1 ELSE Len(prices) - k + 1
  IN SubSeq(prices, from, Len(prices) - 5)

\* slice.reduce((a, b) => a + b, 0)
RECURSIVE Sum(_)
Sum(prices) == IF prices = <<>> THEN 0 ELSE Head(prices) + Sum(Tail(prices))

\* Math.max(...prices) and Math.min(...prices) of a non-empty series
MathMax(prices) ==
  CHOOSE m \in {prices[k] : k \in DOMAIN prices} :
    \A k \in DOMAIN prices : m >= prices[k]
MathMin(prices) ==
  CHOOSE m \in {prices[k] : k \in DOMAIN prices} :
    \A k \in DOMAIN prices : m <= prices[k]

\* ------------------------------------------------------------------------
\* Helper functions of the history variant
\* ------------------------------------------------------------------------
\* the mean of the first period points
calculateSMAFromStart(prices, period) ==
  IF Len(prices) < period THEN Null
  ELSE Rat(Sum(SubSeq(prices, 1, period)), period)

calculateSMA(prices, period) ==
  IF Len(prices) < period THEN Null
  ELSE Rat(Sum(Last(prices, period)), period)

calculateTrend(prices, period) ==
  IF Len(prices) < period + 5 THEN "unknown"
  ELSE LET recentMA == calculateSMA(Last(prices, 5), 5)
           olderMA == calculateSMA(SliceBeforeLast5(prices, period + 5), 5)
       IN IF Greater(recentMA, Mul(olderMA, Rat(102, 100))) THEN "up"
          ELSE IF Less(recentMA, Mul(olderMA, Rat(98, 100))) THEN "down"
          ELSE "sideways"


\* no downsampling: every daily close is a weekly price
WeeklyPricesDaily(closePrices) == closePrices

\* for (let i = 0; i < closePrices.length; i += 5) weeklyPrices.push(...)
WeeklyPrices(closePrices) ==
  [k \in 1..((Len(closePrices) + 4) \div 5) |-> closePrices[5 * (k - 1) + 1]]

\* ------------------------------------------------------------------------
\* The providers.  What a provider answers is a function of the symbol, one
\* symbol per kind of answer.
\* ------------------------------------------------------------------------
Symbols == {"AAA", "BBB", "CCC", "DDD", "EEE", "FFF", "GGG", "HHH", "SPY", "JJJ"}

QuoteObject(c, o, h, l, pc) ==
  [kind |-> "object",
   data |-> [f \in {"c", "o", "h", "l", "pc"} |->
              CASE f = "c" -> c [] f = "o" -> o [] f = "h" -> h
                [] f = "l" -> l [] OTHER -> pc]]

\* axios.get(".../quote?symbol=...") of Finnhub: the call throws ("error"),
\* or answers with a falsy body ("empty") or with an object
FinnhubQuote(symbol) ==
  CASE symbol = "BBB" -> [kind |-> "error", data |-> <<>>]
    [] symbol = "JJJ" -> [kind |-> "empty", data |-> <<>>]
    [] symbol = "CCC" -> QuoteObject(Num(0), Num(0), Num(0), Num(0), Num(0))
    [] symbol = "DDD" -> QuoteObject(Null, Null, Null, Null, Null)
    [] symbol = "EEE" -> [kind |-> "object", data |-> [f \in {"error"} |-> Str("no access")]]
    [] symbol = "FFF" -> QuoteObject(Num(0 - 5), Num(4), Num(6), Num(3), Num(5))
    [] symbol = "HHH" -> QuoteObject(Num(50), Null, Num(51), Num(49), Num(0))
    [] symbol = "SPY" -> QuoteObject(Num(60), Num(61), Num(62), Num(59), Num(61))
    [] OTHER -> QuoteObject(Num(95), Num(94), Num(96), Num(93), Num(94))

\* axios.get(".../stock/candle?...") of Finnhub
FinnhubCandle(symbol) ==
  CASE symbol = "GGG" -> [kind |-> "error", s |-> "", c |-> <<>>, v |-> <<>>]
    [] symbol = "HHH" -> [kind |-> "object", s |-> "no_data", c |-> <<>>, v |-> <<>>]
    [] symbol = "SPY" -> [kind |-> "object", s |-> "ok", c |-> <<60, 100, 80>>, v |-> <<30, 20, 10>>]
    [] OTHER -> [kind |-> "object", s |-> "ok", c |-> <<90, 100, 95>>, v |-> <<10, 20, 30>>]

\* ------------------------------------------------------------------------
\* history variant: getStockDataWithTrend
\* ------------------------------------------------------------------------
HistoryEtfs ==
  {"SPY", "QQQ", "IWM", "DIA", "XLF", "XLE", "XLK", "XLV", "XLI", "XLP", "XLY",
   "XLB", "XLU", "XLRE", "XLC", "VTI", "VOO", "EWG", "EWQ", "FEZ", "VGK"}

\* if (!quote || quote.c === 0 || quote.c === null) return null
NoQuoteData(quote) ==
  \/ quote.kind = "empty"
  \/ StrictEq(Get(quote.data, "c"), Num(0))
  \/ StrictEq(Get(quote.data, "c"), Null)

\* the record getStockDataWithTrend returns once both calls have answered
EnrichWithTrend(symbol, quote, candles) ==
  LET q == quote.data
      hasCloses == candles.s = "ok" /\ Len(candles.c) > 0
      closePrices == candles.c
      ma20 == IF hasCloses THEN calculateSMA(closePrices, 20) ELSE Null
      ma50 == IF hasCloses THEN calculateSMA(closePrices, 50) ELSE Null
      ma200 == IF hasCloses THEN calculateSMA(closePrices, 200) ELSE Null
      dailyTrend == IF hasCloses THEN calculateTrend(closePrices, 20) ELSE "unknown"
      weeklyTrend ==
        IF hasCloses /\ Len(closePrices) >= 25
        THEN calculateTrend(WeeklyPrices(closePrices), 4) ELSE "unknown"
      above(ma) ==
        IF ~hasCloses THEN Null
        ELSE IF Truthy(ma) THEN Bool(Greater(Get(q, "c"), ma)) ELSE Null
      week52High == IF hasCloses THEN Num(MathMax(closePrices)) ELSE Null
      week52Low == IF hasCloses THEN Num(MathMin(closePrices)) ELSE Null
      hasVolume == Len(candles.v) > 0
      volume == IF hasVolume THEN Num(candles.v[Len(candles.v)]) ELSE Null
      avgVolume == IF hasVolume THEN calculateSMA(candles.v, 20) ELSE Null
      close == Get(q, "c")
      pc == Get(q, "pc")
      fixedOrNull(ma) == IF Truthy(ma) THEN ToFixed(ma, 2) ELSE Null
  IN [f \in {"symbol", "close", "open", "high", "low", "prevClose", "change",
             "changePercent", "volume", "avgVolume", "volumeRatio",
             "volumeContraction", "week52High", "week52Low", "pctFrom52High",
             "pctFrom52Low", "nearWeek52High", "nearWeek52Low", "ma20", "ma50",
             "ma200", "aboveMA20", "aboveMA50", "aboveMA200", "dailyTrend",
             "weeklyTrend", "trendAlignment", "currency", "is_etf",
             "tradable_on_t212_cfd", "name"} |->
      CASE f = "symbol" -> Str(symbol)
        [] f = "close" -> close
        [] f = "open" -> Get(q, "o")
        [] f = "high" -> Get(q, "h")
        [] f = "low" -> Get(q, "l")
        [] f = "prevClose" -> pc
        [] f = "change" -> Sub(close, pc)
        [] f = "changePercent" ->
             IF Truthy(pc) THEN ToFixed(Mul(Div(Sub(close, pc), pc), Num(100)), 2)
             ELSE Num(0)
        [] f = "volume" -> volume
        [] f = "avgVolume" -> avgVolume
        [] f = "volumeRatio" ->
             IF Truthy(avgVolume) THEN ToFixed(Div(volume, avgVolume), 2) ELSE Null
        [] f = "volumeContraction" ->
             IF Truthy(avgVolume)
             THEN Bool(Less(volume, Mul(avgVolume, Rat(7, 10)))) ELSE Null
        [] f = "week52High" -> week52High
        [] f = "week52Low" -> week52Low
        [] f = "pctFrom52High" ->
             IF Truthy(week52High)
             THEN ToFixed(Mul(Div(close, week52High), Num(100)), 1) ELSE Null
        [] f = "pctFrom52Low" ->
             IF Truthy(week52Low)
             THEN ToFixed(Mul(Sub(Div(close, week52Low), Num(1)), Num(100)), 1)
             ELSE Null
        [] f = "nearWeek52High" ->
             IF Truthy(week52High)
             THEN Bool(Geq(close, Mul(week52High, Rat(95, 100)))) ELSE Null
        [] f = "nearWeek52Low" ->
             IF Truthy(week52Low)
             THEN Bool(Leq(close, Mul(week52Low, Rat(105, 100)))) ELSE Null
        [] f = "ma20" -> fixedOrNull(ma20)
        [] f = "ma50" -> fixedOrNull(ma50)
        [] f = "ma200" -> fixedOrNull(ma200)
        [] f = "aboveMA20" -> above(ma20)
        [] f = "aboveMA50" -> above(ma50)
        [] f = "aboveMA200" -> above(ma200)
        [] f = "dailyTrend" -> Str(dailyTrend)
        [] f = "weeklyTrend" -> Str(weeklyTrend)
        [] f = "trendAlignment" ->
             IF dailyTrend = "up" /\ weeklyTrend = "up" THEN Str("bullish")
             ELSE IF dailyTrend = "down" /\ weeklyTrend = "down" THEN Str("bearish")
             ELSE Str("mixed")
        [] f = "currency" -> Str("USD")
        [] f = "is_etf" -> Bool(symbol \in HistoryEtfs)
        [] f = "tradable_on_t212_cfd" -> Bool(TRUE)
        [] OTHER -> Str(symbol)]

\* ------------------------------------------------------------------------
\* quote-only variant: getStockDataFinnhub
\* ------------------------------------------------------------------------
QuoteEtfs ==
  {"SPY", "QQQ", "IWM", "DIA", "XLF", "XLE", "XLK", "XLV", "XLI", "XLP", "XLY",
   "XLB", "XLU", "XLRE", "XLC", "VTI", "VOO", "VEA", "VWO", "BND", "GLD", "SLV",
   "USO", "TLT", "HYG", "LQD", "EEM", "EFA", "ARKK", "ARKG"}

\* every symbol of the model has three letters: symbol.length <= 4 holds
EnrichQuoteOnly(symbol, quote) ==
  LET q == quote.data
      close == Get(q, "c")
      prevClose == Get(q, "pc")
  IN [f \in {"symbol", "close", "open", "high", "low", "prevClose", "change",
             "changePercent", "volume", "avgVolume", "week52High", "week52Low",
             "marketCap", "currency", "is_etf", "asset_type",
             "tradable_on_t212_cfd", "name"} |->
      CASE f = "symbol" -> Str(symbol)
        [] f = "close" -> close
        [] f = "open" -> Get(q, "o")
        [] f = "high" -> Get(q, "h")
        [] f = "low" -> Get(q, "l")
        [] f = "prevClose" -> prevClose
        [] f = "change" -> Sub(close, prevClose)
        [] f = "changePercent" ->
             IF Truthy(prevClose)
             THEN ToFixed(Mul(Div(Sub(close, prevClose), prevClose), Num(100)), 2)
             ELSE Num(0)
        [] f \in {"volume", "avgVolume", "week52High", "week52Low", "marketCap"} -> Null
        [] f = "currency" -> Str("USD")
        [] f = "is_etf" -> Bool(symbol \in QuoteEtfs)
        [] f = "asset_type" -> Str("equity")
        [] f = "tradable_on_t212_cfd" -> Bool(TRUE)
        [] OTHER -> Str(symbol)]

\* ------------------------------------------------------------------------
\* Yahoo variant: getStockData; legacy variant: getPrice
\* ------------------------------------------------------------------------
YahooQuote(symbol, price, quoteType, missing) ==
  [kind |-> "quote",
   data |-> [f \in {"symbol", "regularMarketPrice", "regularMarketOpen",
                    "regularMarketDayHigh", "regularMarketDayLow",
                    "regularMarketVolume", "averageDailyVolume3Month",
                    "fiftyTwoWeekHigh", "fiftyTwoWeekLow", "marketCap",
                    "currency", "quoteType", "shortName", "exchange"} \ missing |->
              CASE f = "symbol" -> Str(symbol)
                [] f = "regularMarketPrice" -> price
                [] f = "regularMarketOpen" -> Num(94)
                [] f = "regularMarketDayHigh" -> Num(96)
                [] f = "regularMarketDayLow" -> Num(93)
                [] f = "regularMarketVolume" -> Num(1000)
                [] f = "averageDailyVolume3Month" -> Num(2000)
                [] f = "fiftyTwoWeekHigh" -> Num(100)
                [] f = "fiftyTwoWeekLow" -> Num(60)
                [] f = "marketCap" -> Num(5000)
                [] f = "currency" -> Str("USD")
                [] f = "quoteType" -> Str(quoteType)
                [] f = "shortName" -> Str(symbol)
                [] OTHER -> Str("NMS")]]

\* the entry of one symbol in response.data.quoteResponse.result of Yahoo:
\* a quote object, no entry at all ("omitted"), or a null entry
YahooEntry(symbol) ==
  CASE symbol = "BBB" -> [kind |-> "null", data |-> <<>>]
    [] symbol = "DDD" -> [kind |-> "omitted", data |-> <<>>]
    [] symbol = "CCC" -> YahooQuote(symbol, Num(0), "EQUITY", {})
    [] symbol = "HHH" ->
         YahooQuote(symbol, Num(50), "EQUITY",
                    {"regularMarketOpen", "regularMarketVolume", "fiftyTwoWeekHigh",
                     "fiftyTwoWeekLow", "marketCap", "shortName"})
    [] symbol = "EEE" -> [kind |-> "quote", data |-> [f \in {"symbol"} |-> Str(symbol)]]
    [] symbol = "SPY" -> YahooQuote(symbol, Num(60), "ETF", {})
    [] OTHER -> YahooQuote(symbol, Num(95), "EQUITY", {})

\* x || y
OrElse(x, y) == IF Truthy(x) THEN x ELSE y

\* the callback of results.map in getStockData
YahooRecord(quote) ==
  LET price == Get(quote, "regularMarketPrice")
      high52 == Get(quote, "fiftyTwoWeekHigh")
      low52 == Get(quote, "fiftyTwoWeekLow")
      vol == Get(quote, "regularMarketVolume")
      avg == Get(quote, "averageDailyVolume3Month")
      isEtf == StrictEq(Get(quote, "quoteType"), Str("ETF"))
  IN [f \in {"symbol", "close", "open", "high", "low", "volume", "avgVolume",
             "week52High", "week52Low", "marketCap", "currency", "is_etf",
             "asset_type", "pct_from_52w_high", "pct_from_52w_low",
             "volume_vs_avg", "volume_contraction", "name", "exchange",
             "tradable_on_t212_cfd"} |->
      CASE f = "symbol" -> Get(quote, "symbol")
        [] f = "close" -> OrElse(price, Null)
        [] f = "open" -> OrElse(Get(quote, "regularMarketOpen"), Null)
        [] f = "high" -> OrElse(Get(quote, "regularMarketDayHigh"), Null)
        [] f = "low" -> OrElse(Get(quote, "regularMarketDayLow"), Null)
        [] f = "volume" -> OrElse(vol, Num(0))
        [] f = "avgVolume" -> OrElse(avg, Num(0))
        [] f = "week52High" -> OrElse(high52, Null)
        [] f = "week52Low" -> OrElse(low52, Null)
        [] f = "marketCap" -> OrElse(Get(quote, "marketCap"), Num(0))
        [] f = "currency" -> OrElse(Get(quote, "currency"), Str("USD"))
        [] f = "is_etf" -> Bool(isEtf)
        [] f = "asset_type" -> IF isEtf THEN Str("etf") ELSE Str("equity")
        [] f = "pct_from_52w_high" ->
             IF Truthy(high52) THEN ToFixed(Mul(Div(price, high52), Num(100)), 2)
             ELSE Null
        [] f = "pct_from_52w_low" ->
             IF Truthy(low52) THEN ToFixed(Mul(Div(price, low52), Num(100)), 2)
             ELSE Null
        [] f = "volume_vs_avg" ->
             IF Truthy(avg) THEN ToFixed(Div(vol, avg), 2) ELSE Null
        [] f = "volume_contraction" ->
             IF Truthy(avg) THEN Bool(Less(vol, Mul(avg, Rat(7, 10))))
             ELSE Bool(FALSE)
        [] f = "name" ->
             OrElse(Get(quote, "shortName"),
                    OrElse(Get(quote, "longName"), Get(quote, "symbol")))
        [] f = "exchange" -> Get(quote, "exchange")
        [] OTHER ->
             Bool(OrElse(Get(quote, "currency"), Str("USD")).s \in {"USD", "EUR", "GBP"})]

\* getStockData(symbols): one call for the whole batch.  A failed call, or an
\* entry the map callback cannot read, throws inside the try block and the
\* catch returns [] for the whole batch.
getStockData(symbols, httpOk) ==
  LET entries == [k \in DOMAIN symbols |-> YahooEntry(symbols[k])]
      present == SelectSeq(entries, LAMBDA e : e.kind # "omitted")
  IN IF ~httpOk \/ \E k \in DOMAIN present : present[k].kind = "null"
     THEN <<>>
     ELSE [k \in DOMAIN present |-> YahooRecord(present[k].data)]

\* what getPrice returns once the Finnhub quote has answered: the price, or
\* "fallback" when the Yahoo call has to be made
PriceFromFinnhub(quote) ==
  IF quote.kind = "error" THEN [fallback |-> FALSE, price |-> Null]
  ELSE IF quote.kind = "object" /\ Truthy(Get(quote.data, "c"))
  THEN [fallback |-> FALSE, price |-> Get(quote.data, "c")]
  ELSE [fallback |-> TRUE, price |-> Null]

\* r2.data.quoteResponse.result[0]?.regularMarketPrice || null
PriceFromYahoo(entry) ==
  IF entry.kind = "quote" THEN OrElse(Get(entry.data, "regularMarketPrice"), Null)
  ELSE Null

\* { symbol, close: price, currency: "USD" }
LegacyRecord(symbol, price) ==
  [f \in {"symbol", "close", "currency"} |->
    CASE f = "symbol" -> Str(symbol) [] f = "close" -> price [] OTHER -> Str("USD")]

\* ------------------------------------------------------------------------
\* Conditions.  right is a scalar (val) or an array of scalars (elems).
\* ------------------------------------------------------------------------
Scalar(x) == [isArray |-> FALSE, val |-> x, elems |-> <<>>]
Array(xs) == [isArray |-> TRUE, val |-> Undef, elems |-> xs]
Cond(left, operation, right) ==
  [left |-> left, operation |-> operation, right |-> right]

\* Number(c.right): an array goes through its string, "" for [], the
\* element's own string for [x], a string with a comma otherwise
RightNumber(right) ==
  IF ~right.isArray THEN ToNumber(right.val)
  ELSE IF Len(right.elems) = 0 THEN Num(0)
  ELSE IF Len(right.elems) > 1 THEN NaN
  ELSE LET x == right.elems[1]
       IN IF x.t \in {"undefined", "null"} THEN Num(0)
          ELSE IF x.t = "boolean" THEN NaN
          ELSE ToNumber(x)

\* Array.isArray(c.right) && c.right.includes(left)
Includes(right, left) ==
  /\ right.isArray
  /\ \E k \in DOMAIN right.elems :
       \/ StrictEq(right.elems[k], left)
       \/ IsNaN(right.elems[k]) /\ IsNaN(left)

PriceFields == {"close", "open", "high", "low"}
YahooRequiredFields == {"volume", "close", "week52High", "week52Low"}

\* history variant: the callback of conditions.every
ConditionHolds(item, c) ==
  LET left == Get(item, c.left)
  IN IF left.t \in {"undefined", "null"} THEN c.left \notin PriceFields
     ELSE CASE c.operation = "equal" -> ~c.right.isArray /\ StrictEq(left, c.right.val)
            [] c.operation = "greater" -> NumGreater(ToNumber(left), RightNumber(c.right))
            [] c.operation = "less" -> NumLess(ToNumber(left), RightNumber(c.right))
            [] c.operation = "in" -> Includes(c.right, left)
            [] c.operation = "near" ->
                 IF c.left = "52_week_high"
                 THEN StrictEq(Get(item, "nearWeek52High"), Bool(TRUE))
                 ELSE IF c.left = "52_week_low"
                 THEN StrictEq(Get(item, "nearWeek52Low"), Bool(TRUE))
                 ELSE FALSE
            [] OTHER -> TRUE

\* quote-only variant: the callback of conditions.every
ConditionHoldsQuote(item, c) ==
  LET left == Get(item, c.left)
  IN IF left.t \in {"undefined", "null"} THEN c.left \notin PriceFields
     ELSE CASE c.operation = "equal" -> ~c.right.isArray /\ StrictEq(left, c.right.val)
            [] c.operation = "greater" -> NumGreater(ToNumber(left), RightNumber(c.right))
            [] c.operation = "less" -> NumLess(ToNumber(left), RightNumber(c.right))
            [] c.operation = "in" -> Includes(c.right, left)
            [] c.operation = "near" -> c.left \in {"52_week_high", "52_week_low"}
            [] OTHER -> TRUE

\* Yahoo variant: the callback of conditions.every
ConditionHoldsYahoo(item, c) ==
  LET left == Get(item, c.left)
  IN IF left.t \in {"undefined", "null"} THEN c.left \notin YahooRequiredFields
     ELSE CASE c.operation = "equal" -> ~c.right.isArray /\ StrictEq(left, c.right.val)
            [] c.operation = "greater" -> NumGreater(ToNumber(left), RightNumber(c.right))
            [] c.operation = "less" -> NumLess(ToNumber(left), RightNumber(c.right))
            [] c.operation = "in" -> Includes(c.right, left)
            [] c.operation = "near" ->
                 IF c.left = "52_week_high"
                 THEN /\ Truthy(Get(item, "close"))
                      /\ Truthy(Get(item, "week52High"))
                      /\ Geq(Get(item, "close"), Mul(Get(item, "week52High"), Rat(95, 100)))
                 ELSE IF c.left = "52_week_low"
                 THEN /\ Truthy(Get(item, "close"))
                      /\ Truthy(Get(item, "week52Low"))
                      /\ Leq(Get(item, "close"), Mul(Get(item, "week52Low"), Rat(105, 100)))
                 ELSE FALSE
            [] OTHER -> TRUE

\* legacy variant: the callback of conditions.every; no absent-field check, no
\* Number().  The conditions of the model give greater and less a number as
\* right, where left > c.right is the numeric comparison.
ConditionHoldsLegacy(item, c) ==
  LET left == Get(item, c.left)
  IN CASE c.operation = "equal" -> ~c.right.isArray /\ StrictEq(left, c.right.val)
       [] c.operation = "greater" -> Greater(left, c.right.val)
       [] c.operation = "less" -> Less(left, c.right.val)
       [] c.operation = "in" -> Includes(c.right, left)
       [] c.operation = "near" ->
            IF c.left = "52_week_high"
            THEN Geq(Get(item, "close"), Mul(Get(item, "week52High"), Rat(95, 100)))
            ELSE IF c.left = "52_week_low"
            THEN Leq(Get(item, "close"), Mul(Get(item, "week52Low"), Rat(105, 100)))
            ELSE FALSE
       [] OTHER -> TRUE

\* The conditions of a request: absent (or any falsy value), an array, or
\* "other", a truthy value that is no array and has no length 0 and no every
\* (a number, an object).  The outcome of applyConditions is the filtered list
\* (universe.filter is SelectSeq) or a TypeError.
Returned(list) == [threw |-> FALSE, out |-> list]
Thrown == [threw |-> TRUE, out |-> <<>>]

\* absent conditions are not defaulted to []
applyConditionsNoDefault(universe, conditions) ==
  IF conditions.kind = "array" /\ Len(conditions.items) = 0
  THEN Returned(universe)
  ELSE IF conditions.kind # "array"
  THEN IF universe = <<>> THEN Returned(<<>>) ELSE Thrown
  ELSE Returned(SelectSeq(universe,
         LAMBDA item : \A k \in DOMAIN conditions.items :
                         ConditionHolds(item, conditions.items[k])))

\* the records that pass come back last first
applyConditionsReversed(universe, conditions) ==
  LET kept == applyConditionsNoDefault(universe,
                IF conditions.kind = "absent" THEN [kind |-> "array", items |-> <<>>]
                ELSE conditions)
  IN IF kept.threw THEN Thrown
     ELSE Returned([k \in DOMAIN kept.out |-> kept.out[Len(kept.out) + 1 - k]])

\* history variant; the caller passes conditions || []
applyConditions(universe, conditions) ==
  IF conditions.kind = "absent" \/ (conditions.kind = "array" /\ Len(conditions.items) = 0)
  THEN Returned(universe)
  ELSE IF conditions.kind = "other"
  THEN IF universe = <<>> THEN Returned(<<>>) ELSE Thrown
  ELSE Returned(SelectSeq(universe,
         LAMBDA item : \A k \in DOMAIN conditions.items :
                         ConditionHolds(item, conditions.items[k])))

\* quote-only variant; the caller passes conditions || []
applyConditionsQuote(universe, conditions) ==
  IF conditions.kind = "absent" \/ (conditions.kind = "array" /\ Len(conditions.items) = 0)
  THEN Returned(universe)
  ELSE IF conditions.kind = "other"
  THEN IF universe = <<>> THEN Returned(<<>>) ELSE Thrown
  ELSE Returned(SelectSeq(universe,
         LAMBDA item : \A k \in DOMAIN conditions.items :
                         ConditionHoldsQuote(item, conditions.items[k])))

\* Yahoo variant; the caller passes conditions || []
applyConditionsYahoo(universe, conditions) ==
  IF conditions.kind = "absent" \/ (conditions.kind = "array" /\ Len(conditions.items) = 0)
  THEN Returned(universe)
  ELSE IF conditions.kind = "other"
  THEN IF universe = <<>> THEN Returned(<<>>) ELSE Thrown
  ELSE Returned(SelectSeq(universe,
         LAMBDA item : \A k \in DOMAIN conditions.items :
                         ConditionHoldsYahoo(item, conditions.items[k])))

\* legacy variant; the caller passes conditions as received, and
\* undefined.every throws for the first item
applyConditionsLegacy(universe, conditions) ==
  IF conditions.kind # "array"
  THEN IF universe = <<>> THEN Returned(<<>>) ELSE Thrown
  ELSE Returned(SelectSeq(universe,
         LAMBDA item : \A k \in DOMAIN conditions.items :
                         ConditionHoldsLegacy(item, conditions.items[k])))

\* ------------------------------------------------------------------------
\* Requests
\* ------------------------------------------------------------------------
Variants == {"legacy", "history", "quote", "yahoo"}

Absent == [kind |-> "absent", items |-> <<>>]
Other == [kind |-> "other", items |-> <<>>]
ArrayOf(items) == [kind |-> "array", items |-> items]

NearHigh == Cond("52_week_high", "near", Scalar(Undef))
NearLow == Cond("52_week_low", "near", Scalar(Undef))
CloseAboveZero == Cond("close", "greater", Scalar(Num(0)))

PipelineConds ==
  {NearHigh, NearLow, CloseAboveZero,
   Cond("marketCap", "greater", Scalar(Num(0))),
   Cond("open", "greater", Scalar(Num(0))),
   Cond("volume", "less", Scalar(Num(100))),
   Cond("close", "in", Array(<<Num(95), Num(60)>>)),
   Cond("foo", "near", Scalar(Undef)),
   Cond("currency", "equal", Scalar(Str("USD"))),
   Cond("close", "between", Scalar(Num(0)))}

CondLists ==
  {Absent, Other, ArrayOf(<<>>), ArrayOf(<<CloseAboveZero, NearHigh>>)}
    \cup {ArrayOf(<<c>>) : c \in PipelineConds}

ArrayUniverse(items) == [isArray |-> TRUE, items |-> items]
\* a universe that is no array: absent, a string, an object
NoArrayUniverse == [isArray |-> FALSE, items |-> <<>>]

ShortUniverses == UNION {[1..n -> Symbols] : n \in 0..MaxShort}
LongUniverses == {[k \in 1..n |-> "AAA"] : n \in (MaxShort + 1)..MaxUniverse}

Latencies == {0, SlowFetch}

Request(action, universe, conditions, latency) ==
  [action |-> action, universe |-> universe, conditions |-> conditions,
   latency |-> latency]

\* the requests the model sends to a deployment of variant v; the legacy
\* variant starts all its calls at once and gets the short universes only
Requests(v) ==
  {Request("screen", ArrayUniverse(u), c, 0) : u \in ShortUniverses, c \in CondLists}
    \cup {Request("scan", ArrayUniverse(u), Absent, 0) : u \in {<<>>, <<"AAA">>}}
    \cup {Request(a, NoArrayUniverse, ArrayOf(<<>>), 0) : a \in {"screen", "scan"}}
    \cup (IF v = "legacy" THEN {}
          ELSE {Request("screen", ArrayUniverse(u), ArrayOf(<<>>), lat) :
                  u \in LongUniverses, lat \in Latencies})
    \cup (IF v # "yahoo" THEN {}
          ELSE {Request("screen", ArrayUniverse([k \in 1..(batchSize + 1) |-> "AAA"]),
                        ArrayOf(<<>>), 0)})

\* ------------------------------------------------------------------------
\* State
\* ------------------------------------------------------------------------
VARIABLES
  variant,     \* the revision that is deployed
  pc,          \* where the handler of the request stands
  request,     \* req.body of the request, and the latency of its provider calls
  symbols,     \* the list getStockDataBatch walks (limitedUniverse, universe)
  i,           \* 1-based index of the symbol (Yahoo: of the batch start) at work
  stockData,   \* results of getStockDataBatch, allStockData of the Yahoo variant
  slots,       \* legacy variant: the state of each promise of Promise.all
  inflight,    \* provider calls started and not yet answered
  calls,       \* every provider call started so far, in the order of their start
  failed,      \* the places in calls of the calls that threw
  now,         \* clock of the sequential variants, in ms since the request
  delays,      \* pacing delays that have elapsed
  evaluated,   \* the argument lists applyConditions was invoked on
  response,    \* the response sent, status 0 while there is none
  fnArgs,      \* arguments of a function applied on its own
  fnResult     \* its result

vars == <<variant, pc, request, symbols, i, stockData, slots, inflight, calls,
          failed, now, delays, evaluated, response, fnArgs, fnResult>>

fnVars == <<fnArgs, fnResult>>

NoRequest == Request("", NoArrayUniverse, Absent, 0)
NoResponse == [status |-> 0, error |-> "", body |-> <<>>]

\* no function has been applied on its own
NoArgs == [fn |-> ""]

\* the handler has not been entered
Idle ==
  /\ pc = "idle"
  /\ request = NoRequest
  /\ symbols = <<>>
  /\ i = 0
  /\ stockData = <<>>
  /\ slots = <<>>
  /\ inflight = 0
  /\ calls = <<>>
  /\ failed = {}
  /\ now = 0
  /\ delays = 0
  /\ evaluated = <<>>
  /\ response = NoResponse
  /\ fnArgs = NoArgs
  /\ fnResult = NoArgs

Init == variant \in Variants /\ Idle

\* res.status(400).json({ error }) and res.status(500).json({ error, detail })
ErrorResponse(status, error) == [status |-> status, error |-> error, body |-> <<>>]
\* res.json(body)
OkResponse(body) == [status |-> 200, error |-> "", body |-> body]

\* a provider call: the 1-based place in the universe of the symbol it is for
\* (Yahoo: of the first symbol of its batch), the endpoint, the start time
Call(index, symbol, api, at) ==
  [index |-> index, symbol |-> symbol, api |-> api, at |-> at]

\* the cut one symbol too late
limitedUniverseLate(universe) ==
  IF Len(universe) <= MaxScreen + 1 THEN universe
  ELSE SubSeq(universe, 1, MaxScreen + 1)

\* universe.slice(0, 25)
limitedUniverse(universe) ==
  IF Len(universe) <= MaxScreen THEN universe ELSE SubSeq(universe, 1, MaxScreen)

TruncationNote ==
  Str("Limited to 25 stocks due to API rate limits. For more stocks, consider Finnhub premium.")

\* ------------------------------------------------------------------------
\* app.post("/screen"): validation, common to the four variants
\* ------------------------------------------------------------------------
\* the action is not checked
InvalidActionUnchecked(r) == FALSE

InvalidAction(r) == r.action # "screen"
InvalidUniverse(r) == ~r.universe.isArray \/ Len(r.universe.items) = 0

\* the request is answered with 400 before anything is fetched
Reject ==
  /\ pc = "idle"
  /\ \E r \in Requests(variant) :
       /\ InvalidAction(r) \/ InvalidUniverse(r)
       /\ request' = r
       /\ response' = IF InvalidAction(r) THEN ErrorResponse(400, "Invalid action")
                      ELSE ErrorResponse(400, "Universe must be a non-empty array")
  /\ pc' = "done"
  /\ UNCHANGED <<variant, symbols, i, stockData, slots, inflight, calls, failed,
                 now, delays, evaluated, fnVars>>

\* ------------------------------------------------------------------------
\* history variant
\* ------------------------------------------------------------------------
\* the failure response carries the records fetched so far
FinishHistoryPartial(r, data) ==
  LET universe == r.universe.items
      results == applyConditions(data, r.conditions)
  IN IF results.threw
     THEN [status |-> 500, error |-> "Server error", body |-> [results |-> data]]
     ELSE OkResponse(
       [count |-> Len(results.out),
        universe_size |-> Len(universe),
        screened_size |-> Len(limitedUniverse(universe)),
        valid_data |-> Len(data),
        note |-> IF Len(universe) > MaxScreen THEN TruncationNote ELSE Null,
        results |-> results.out])

\* the success or failure response of the handler once the batch is fetched
FinishHistory(r, data) ==
  LET universe == r.universe.items
      results == applyConditions(data, r.conditions)
  IN IF results.threw THEN ErrorResponse(500, "Server error")
     ELSE OkResponse(
       [count |-> Len(results.out),
        universe_size |-> Len(universe),
        screened_size |-> Len(limitedUniverse(universe)),
        valid_data |-> Len(data),
        note |-> IF Len(universe) > MaxScreen THEN TruncationNote ELSE Null,
        results |-> results.out])

\* a valid request: the universe is cut and getStockDataBatch starts the
\* quote call of the first symbol
ReceiveHistory ==
  /\ variant = "history"
  /\ pc = "idle"
  /\ \E r \in Requests(variant) :
       /\ ~InvalidAction(r) /\ ~InvalidUniverse(r)
       /\ request' = r
       /\ symbols' = limitedUniverse(r.universe.items)
  /\ i' = 1
  /\ pc' = "quote"
  /\ inflight' = inflight + 1
  /\ calls' = Append(calls, Call(1, symbols'[1], "quote", now))
  /\ UNCHANGED <<variant, stockData, slots, failed, now, delays, evaluated, response,
                 fnVars>>

\* getStockDataWithTrend has returned data for symbol i (data is stockData
\* with or without its record): the loop delays or, after the last symbol,
\* the handler evaluates and responds
SymbolDoneHistory(data) ==
  /\ stockData' = data
  /\ inflight' = inflight - 1
  /\ IF i < Len(symbols)
     THEN /\ pc' = "delay"
          /\ UNCHANGED <<evaluated, response>>
     ELSE /\ pc' = "done"
          /\ evaluated' = Append(evaluated, data)
          /\ response' = FinishHistory(request, data)

\* the quote call answers: no data or an error ends the symbol, a usable
\* quote starts the candle call
QuoteReturn ==
  /\ variant = "history"
  /\ pc = "quote"
  /\ now' = now + request.latency
  /\ LET quote == FinnhubQuote(symbols[i])
     IN /\ failed' = IF quote.kind = "error" THEN failed \cup {Len(calls)} ELSE failed
        /\ IF quote.kind = "error" \/ NoQuoteData(quote)
           THEN /\ SymbolDoneHistory(stockData)
                /\ UNCHANGED calls
           ELSE /\ pc' = "candle"
                /\ calls' = Append(calls, Call(i, symbols[i], "candle", now'))
                /\ UNCHANGED <<stockData, inflight, evaluated, response>>
  /\ UNCHANGED <<variant, request, symbols, i, slots, delays, fnVars>>

\* the candle call answers: an error ends the symbol without a record
CandleReturn ==
  /\ variant = "history"
  /\ pc = "candle"
  /\ now' = now + request.latency
  /\ LET candles == FinnhubCandle(symbols[i])
     IN /\ failed' = IF candles.kind = "error" THEN failed \cup {Len(calls)} ELSE failed
        /\ IF candles.kind = "error"
           THEN SymbolDoneHistory(stockData)
           ELSE SymbolDoneHistory(
                  Append(stockData,
                         EnrichWithTrend(symbols[i], FinnhubQuote(symbols[i]), candles)))
  /\ UNCHANGED <<variant, request, symbols, i, slots, calls, delays, fnVars>>

\* await delay(ms) of getStockDataBatch
DelayOf(v) == IF v = "history" THEN HistoryDelay ELSE QuoteDelay

\* the loop steps over a symbol when two or more are left
DelayElapsedSkipping ==
  /\ pc = "delay"
  /\ now' = now + DelayOf(variant)
  /\ delays' = delays + 1
  /\ i' = IF i + 2 <= Len(symbols) THEN i + 2 ELSE i + 1
  /\ pc' = "quote"
  /\ inflight' = inflight + 1
  /\ calls' = Append(calls, Call(i', symbols[i'], "quote", now'))
  /\ UNCHANGED <<variant, request, symbols, stockData, slots, failed, evaluated,
                 response, fnVars>>

\* the pacing delay elapses and the loop starts the quote call of the next
\* symbol (history and quote-only variants)
DelayElapsed ==
  /\ pc = "delay"
  /\ now' = now + DelayOf(variant)
  /\ delays' = delays + 1
  /\ i' = i + 1
  /\ pc' = "quote"
  /\ inflight' = inflight + 1
  /\ calls' = Append(calls, Call(i', symbols[i'], "quote", now'))
  /\ UNCHANGED <<variant, request, symbols, stockData, slots, failed, evaluated,
                 response, fnVars>>

\* ------------------------------------------------------------------------
\* quote-only variant
\* ------------------------------------------------------------------------
FinishQuote(r, data) ==
  LET results == applyConditionsQuote(data, r.conditions)
  IN IF results.threw THEN ErrorResponse(500, "Server error")
     ELSE OkResponse(
       [count |-> Len(results.out),
        universe_size |-> Len(r.universe.items),
        valid_data |-> Len(data),
        results |-> results.out])

ReceiveQuote ==
  /\ variant = "quote"
  /\ pc = "idle"
  /\ \E r \in Requests(variant) :
       /\ ~InvalidAction(r) /\ ~InvalidUniverse(r)
       /\ request' = r
       /\ symbols' = r.universe.items
  /\ i' = 1
  /\ pc' = "quote"
  /\ inflight' = inflight + 1
  /\ calls' = Append(calls, Call(1, symbols'[1], "quote", now))
  /\ UNCHANGED <<variant, stockData, slots, failed, now, delays, evaluated, response,
                 fnVars>>

\* getStockDataFinnhub returns for symbol i
QuoteOnlyReturn ==
  /\ variant = "quote"
  /\ pc = "quote"
  /\ now' = now + request.latency
  /\ inflight' = inflight - 1
  /\ LET quote == FinnhubQuote(symbols[i])
         data == IF quote.kind = "error" \/ NoQuoteData(quote) THEN stockData
                 ELSE Append(stockData, EnrichQuoteOnly(symbols[i], quote))
     IN /\ failed' = IF quote.kind = "error" THEN failed \cup {Len(calls)} ELSE failed
        /\ stockData' = data
        /\ IF i < Len(symbols)
           THEN /\ pc' = "delay"
                /\ UNCHANGED <<evaluated, response>>
           ELSE /\ pc' = "done"
                /\ evaluated' = Append(evaluated, data)
                /\ response' = FinishQuote(request, data)
  /\ UNCHANGED <<variant, request, symbols, i, slots, calls, delays, fnVars>>

\* ------------------------------------------------------------------------
\* Yahoo variant
\* ------------------------------------------------------------------------
\* allStockData.filter((x) => x.close !== null)
WithPrice(data) == SelectSeq(data, LAMBDA x : ~StrictEq(Get(x, "close"), Null))

FinishYahoo(r, data) ==
  LET valid == WithPrice(data)
      results == applyConditionsYahoo(valid, r.conditions)
  IN IF results.threw THEN ErrorResponse(500, "Server error")
     ELSE OkResponse(
       [count |-> Len(results.out),
        universe_size |-> Len(r.universe.items),
        valid_data |-> Len(valid),
        results |-> results.out])

\* universe.slice(i, i + batchSize), i being 1-based here
Batch(universe, from) ==
  SubSeq(universe, from,
         IF from + batchSize - 1 <= Len(universe) THEN from + batchSize - 1
         ELSE Len(universe))

ReceiveYahoo ==
  /\ variant = "yahoo"
  /\ pc = "idle"
  /\ \E r \in Requests(variant) :
       /\ ~InvalidAction(r) /\ ~InvalidUniverse(r)
       /\ request' = r
       /\ symbols' = r.universe.items
  /\ i' = 1
  /\ pc' = "yahoo"
  /\ inflight' = inflight + 1
  /\ calls' = Append(calls, Call(1, symbols'[1], "yahoo", now))
  /\ UNCHANGED <<variant, stockData, slots, failed, now, delays, evaluated, response,
                 fnVars>>

\* getStockData returns for the batch that starts at i: the loop fetches the
\* next batch or, after the last one, the handler evaluates and responds
YahooReturn ==
  /\ variant = "yahoo"
  /\ pc = "yahoo"
  /\ now' = now + request.latency
  /\ \E httpOk \in BOOLEAN :
       LET data == stockData \o getStockData(Batch(symbols, i), httpOk)
       IN /\ failed' = IF httpOk THEN failed ELSE failed \cup {Len(calls)}
          /\ stockData' = data
          /\ IF i + batchSize <= Len(symbols)
             THEN /\ i' = i + batchSize
                  /\ calls' = Append(calls, Call(i', symbols[i'], "yahoo", now'))
                  /\ UNCHANGED <<pc, inflight, evaluated, response>>
             ELSE /\ pc' = "done"
                  /\ inflight' = inflight - 1
                  /\ evaluated' = Append(evaluated, WithPrice(data))
                  /\ response' = FinishYahoo(request, data)
                  /\ UNCHANGED <<i, calls>>
  /\ UNCHANGED <<variant, request, symbols, slots, delays, fnVars>>

\* ------------------------------------------------------------------------
\* legacy variant
\* ------------------------------------------------------------------------
FinishLegacy(r, priced) ==
  LET valid == WithPrice(priced)
      results == applyConditionsLegacy(valid, r.conditions)
  IN IF results.threw THEN ErrorResponse(500, "Server error")
     ELSE OkResponse([count |-> Len(results.out), results |-> results.out])

\* a valid request: universe.map starts getPrice, and with it the Finnhub
\* quote call, for every symbol before the handler awaits Promise.all
ReceiveLegacy ==
  /\ variant = "legacy"
  /\ pc = "idle"
  /\ \E r \in Requests(variant) :
       /\ ~InvalidAction(r) /\ ~InvalidUniverse(r)
       /\ request' = r
       /\ symbols' = r.universe.items
  /\ slots' = [k \in DOMAIN symbols' |-> [st |-> "quote", price |-> Null]]
  /\ pc' = "legacy"
  /\ inflight' = inflight + Len(symbols')
  /\ calls' = calls \o [k \in DOMAIN symbols' |-> Call(k, symbols'[k], "quote", now)]
  /\ UNCHANGED <<variant, i, stockData, failed, now, delays, evaluated, response,
                 fnVars>>

\* the Finnhub call of one getPrice answers, in any order among the symbols;
\* the call of symbol k is the k-th of calls
LegacyQuoteReturn ==
  /\ pc = "legacy"
  /\ \E k \in DOMAIN slots :
       /\ slots[k].st = "quote"
       /\ LET got == PriceFromFinnhub(FinnhubQuote(symbols[k]))
          IN /\ failed' = IF FinnhubQuote(symbols[k]).kind = "error"
                           THEN failed \cup {k} ELSE failed
             /\ IF got.fallback
                THEN /\ slots' = [slots EXCEPT ![k].st = "yahoo"]
                     /\ calls' = Append(calls, Call(k, symbols[k], "yahoo", now))
                     /\ UNCHANGED inflight
                ELSE /\ slots' = [slots EXCEPT ![k] = [st |-> "done", price |-> got.price]]
                     /\ inflight' = inflight - 1
                     /\ UNCHANGED calls
  /\ UNCHANGED <<variant, pc, request, symbols, i, stockData, now, delays,
                 evaluated, response, fnVars>>

\* the Yahoo fallback call of one getPrice answers
LegacyYahooReturn ==
  /\ pc = "legacy"
  /\ \E k \in DOMAIN slots :
       /\ slots[k].st = "yahoo"
       /\ slots' = [slots EXCEPT
                      ![k] = [st |-> "done", price |-> PriceFromYahoo(YahooEntry(symbols[k]))]]
  /\ inflight' = inflight - 1
  /\ UNCHANGED <<variant, pc, request, symbols, i, stockData, calls, failed, now,
                 delays, evaluated, response, fnVars>>

\* Promise.all resolves: the handler filters, evaluates and responds
LegacyFinish ==
  /\ pc = "legacy"
  /\ \A k \in DOMAIN slots : slots[k].st = "done"
  /\ LET priced == [k \in DOMAIN slots |-> LegacyRecord(symbols[k], slots[k].price)]
     IN /\ stockData' = priced
        /\ evaluated' = Append(evaluated, WithPrice(priced))
        /\ response' = FinishLegacy(request, priced)
  /\ pc' = "done"
  /\ UNCHANGED <<variant, request, symbols, i, slots, inflight, calls, failed, now,
                 delays, fnVars>>

\* ------------------------------------------------------------------------
\* Specification of one screening request
\* ------------------------------------------------------------------------
Next ==
  \/ Reject
  \/ ReceiveHistory
  \/ QuoteReturn
  \/ CandleReturn
  \/ DelayElapsed
  \/ ReceiveQuote
  \/ QuoteOnlyReturn
  \/ ReceiveYahoo
  \/ YahooReturn
  \/ ReceiveLegacy
  \/ LegacyQuoteReturn
  \/ LegacyYahooReturn
  \/ LegacyFinish

Spec == Init /\ [][Next]_vars

\* ------------------------------------------------------------------------
\* Specification of one screening request of the history variant, in which
\* every provider call that was started returns or fails and every pacing
\* delay elapses
\* ------------------------------------------------------------------------
InitHistory == variant = "history" /\ Idle

NextHistory ==
  \/ Reject
  \/ ReceiveHistory
  \/ QuoteReturn
  \/ CandleReturn
  \/ DelayElapsed

\* the handler leaves the await it stands at: the axios.get of the quote or
\* of the candles settles, the timer of delay fires
Resume(at) == pc = at /\ pc' \in {"quote", "candle", "delay", "done"} \ {at}

SpecHistory ==
  /\ InitHistory
  /\ [][NextHistory]_vars
  /\ \A at \in {"quote", "candle", "delay"} : WF_pc(Resume(at))

\* ------------------------------------------------------------------------
\* Specification of applyConditions applied on its own to one record and one
\* condition, in the three variants that check for an absent field
\* ------------------------------------------------------------------------
EvalVariants == {"history", "quote", "yahoo"}

\* records of the shape the variant builds, one per quote object of a provider
EvalItems(v) ==
  CASE v = "history" ->
         {EnrichWithTrend(sym, FinnhubQuote(sym), FinnhubCandle(sym)) :
            sym \in {x \in Symbols : FinnhubQuote(x).kind = "object"
                                      /\ FinnhubCandle(x).kind = "object"}}
    [] v = "quote" ->
         {EnrichQuoteOnly(sym, FinnhubQuote(sym)) :
            sym \in {x \in Symbols : FinnhubQuote(x).kind = "object"}}
    [] OTHER ->
         {YahooRecord(YahooEntry(sym).data) :
            sym \in {x \in Symbols : YahooEntry(x).kind = "quote"}}

EvalFields ==
  {"close", "open", "high", "low", "volume", "week52High", "week52Low",
   "marketCap", "52_week_high", "52_week_low", "nearWeek52High", "foo"}
EvalOperations == {"equal", "greater", "less", "in", "near", "between"}
EvalRights == {Scalar(Num(0)), Scalar(Num(100)), Array(<<Num(95), Num(50)>>)}

applyConditionsOf(v, universe, conditions) ==
  CASE v = "history" -> applyConditions(universe, conditions)
    [] v = "quote" -> applyConditionsQuote(universe, conditions)
    [] v = "yahoo" -> applyConditionsYahoo(universe, conditions)
    [] OTHER -> applyConditionsLegacy(universe, conditions)

ApplyConditions ==
  /\ fnArgs.fn = ""
  /\ \E item \in EvalItems(variant), left \in EvalFields,
        operation \in EvalOperations, right \in EvalRights :
       LET conditions == ArrayOf(<<Cond(left, operation, right)>>)
       IN /\ fnArgs' = [fn |-> "applyConditions", item |-> item,
                        condition |-> Cond(left, operation, right)]
          /\ fnResult' = applyConditionsOf(variant, <<item>>, conditions)
  /\ UNCHANGED <<variant, pc, request, symbols, i, stockData, slots, inflight,
                 calls, failed, now, delays, evaluated, response>>

InitEval == variant \in EvalVariants /\ Idle

NextEval == ApplyConditions

SpecEval == InitEval /\ [][NextEval]_vars

\* ------------------------------------------------------------------------
\* Specification of the helper functions of the history variant applied on
\* their own: calculateSMA, calculateTrend, getStockDataWithTrend
\* ------------------------------------------------------------------------
\* the short series: every series of up to MaxSeries points over ShortLevels
ShortLevels == {0, 10, 20, 30}
ShortSeries == UNION {[1..n -> ShortLevels] : n \in 0..MaxSeries}

\* the long series: up to MaxHistory points, x for the first a of them and y
\* for the others
StepLevels == {100, 102, 103}
StepSeries ==
  UNION {{[k \in 1..n |-> IF k <= a THEN x ELSE y] :
            a \in 0..(n - 1), x \in StepLevels, y \in StepLevels} :
         n \in (MaxSeries + 1)..MaxHistory}

Series == ShortSeries \cup StepSeries

\* the periods the program passes (5, 20, 50 to calculateSMA; 20, 4 to
\* calculateTrend) and their neighbours
SmaPeriods == {1, 2, 3, 5, 20, 50}
TrendPeriods == {4, 5, 6, 20}

CalculateSMA ==
  /\ fnArgs.fn = ""
  /\ \E prices \in Series, period \in SmaPeriods :
       /\ fnArgs' = [fn |-> "calculateSMA", prices |-> prices, period |-> period]
       /\ fnResult' = calculateSMA(prices, period)
  /\ UNCHANGED <<variant, pc, request, symbols, i, stockData, slots, inflight,
                 calls, failed, now, delays, evaluated, response>>

CalculateTrend ==
  /\ fnArgs.fn = ""
  /\ \E prices \in Series, period \in TrendPeriods :
       /\ fnArgs' = [fn |-> "calculateTrend", prices |-> prices, period |-> period]
       /\ fnResult' = calculateTrend(prices, period)
  /\ UNCHANGED <<variant, pc, request, symbols, i, stockData, slots, inflight,
                 calls, failed, now, delays, evaluated, response>>

\* quoteRes.data: a price of 0 or 101, and a previous close that is null, 0,
\* a number, or missing from the body
HelperQuotes ==
  {QuoteObject(Num(c), Num(94), Num(96), Num(93), p) :
     c \in {0, 101}, p \in {Null, Num(0), Num(94)}}
    \cup {[kind |-> "object",
           data |-> [f \in {"c", "o", "h", "l"} |->
                      IF f = "c" THEN Num(101) ELSE Num(94)]]}

\* candleRes.data: no_data, or the closes with no volumes, volumes of 0, or
\* volumes that grow by the day
HelperCandles(closes) ==
  {[kind |-> "object", s |-> "no_data", c |-> <<>>, v |-> <<>>]}
    \cup {[kind |-> "object", s |-> "ok", c |-> closes, v |-> volumes] :
            volumes \in {<<>>, [k \in DOMAIN closes |-> 0],
                         [k \in DOMAIN closes |-> 1000 + k]}}

\* what getStockDataWithTrend returns when both calls have answered
ReturnedNull == [isNull |-> TRUE, record |-> <<>>]
ReturnedRecord(record) == [isNull |-> FALSE, record |-> record]

GetStockDataWithTrend ==
  /\ fnArgs.fn = ""
  /\ \E quote \in HelperQuotes, closes \in Series :
     \E candles \in HelperCandles(closes) :
       /\ fnArgs' = [fn |-> "getStockDataWithTrend", symbol |-> "AAA",
                     quote |-> quote, candles |-> candles]
       /\ fnResult' = IF NoQuoteData(quote) THEN ReturnedNull
                      ELSE ReturnedRecord(EnrichWithTrend("AAA", quote, candles))
  /\ UNCHANGED <<variant, pc, request, symbols, i, stockData, slots, inflight,
                 calls, failed, now, delays, evaluated, response>>

InitHelpers == variant = "history" /\ Idle

NextHelpers ==
  \/ CalculateSMA
  \/ CalculateTrend
  \/ GetStockDataWithTrend

SpecHelpers == InitHelpers /\ [][NextHelpers]_vars

\* ------------------------------------------------------------------------
\* Properties
\* ------------------------------------------------------------------------
ValidRequest ==
  /\ pc # "idle"
  /\ request.action = "screen"
  /\ request.universe.isArray
  /\ Len(request.universe.items) > 0

Succeeded == response.status = 200

\* the record has a close, and it is not null
HasClose(record) ==
  "close" \in DOMAIN record /\ record["close"].t \notin {"undefined", "null"}

\* x is a number greater than zero
Positive(x) == x.t = "number" /\ ~IsNaN(x) /\ x.v > 0

\* C1: in the history variant every record of the results of a response has a
\* close that is present and not null, and applyConditions is never invoked
\* on a record whose close is null or missing.
C1_ResultsHaveClose ==
  variant = "history" =>
    /\ Succeeded =>
         \A k \in DOMAIN response.body.results : HasClose(response.body.results[k])
    /\ \A n \in DOMAIN evaluated :
         \A k \in DOMAIN evaluated[n] : HasClose(evaluated[n][k])

\* C2: when the field a condition names is undefined or null in the record,
\* applyConditions drops the record if the field is one of close, open, high,
\* low and keeps it for every other field, whatever the operation.
C2_AbsentFieldPolicy ==
  fnArgs.fn = "applyConditions" =>
    LET left == Get(fnArgs.item, fnArgs.condition.left)
    IN left.t \in {"undefined", "null"} =>
         (fnResult.out = <<fnArgs.item>>
            <=> fnArgs.condition.left \notin {"close", "open", "high", "low"})

\* C3: in the history variant the condition {left: "52_week_high", operation:
\* "near"} keeps exactly the records whose nearWeek52High is true, and the
\* condition on "52_week_low" exactly those whose nearWeek52Low is true.
C3_NearUsesFlag ==
  (variant = "history" /\ Succeeded /\ request.conditions.kind = "array"
     /\ Len(request.conditions.items) = 1
     /\ request.conditions.items[1].operation = "near") =>
    LET left == request.conditions.items[1].left
        flagged(flag) ==
          SelectSeq(stockData, LAMBDA x : x[flag].t = "boolean" /\ x[flag].v = 1)
    IN /\ left = "52_week_high" => response.body.results = flagged("nearWeek52High")
       /\ left = "52_week_low" => response.body.results = flagged("nearWeek52Low")

\* symbol k of the list succeeded: the provider call that carries it did not
\* throw, and its own answer can be read and holds a price greater than zero
FetchSucceeded(k) ==
  CASE variant = "yahoo" ->
         /\ ((k - 1) \div 100) + 1 \notin failed
         /\ YahooEntry(symbols[k]).kind = "quote"
         /\ Positive(Get(YahooEntry(symbols[k]).data, "regularMarketPrice"))
    [] variant = "history" ->
         /\ FinnhubQuote(symbols[k]).kind = "object"
         /\ Positive(Get(FinnhubQuote(symbols[k]).data, "c"))
         /\ FinnhubCandle(symbols[k]).kind = "object"
    [] OTHER ->
         /\ FinnhubQuote(symbols[k]).kind = "object"
         /\ Positive(Get(FinnhubQuote(symbols[k]).data, "c"))

\* C4: the batch attempts every symbol and the records it yields are exactly
\* those of the symbols that succeeded, in universe order; a failing symbol
\* never removes the record of another symbol.
C4_FailuresAreIsolated ==
  (variant \in {"history", "quote", "yahoo"} /\ Succeeded) =>
    LET places == [k \in DOMAIN symbols |-> k]
        good == SelectSeq(places, FetchSucceeded)
        data == evaluated[1]
    IN /\ Len(data) = Len(good)
       /\ \A k \in DOMAIN data : data[k]["symbol"] = Str(symbols[good[k]])
       /\ response.body.valid_data = Len(good)

\* C5: within one request at most one provider call is in flight at any
\* moment.
C5_OneCallInFlight == inflight <= 1

\* the calls that start in the 60 seconds that begin with call k
CallsInWindow(k) ==
  {j \in DOMAIN calls : calls[j].at >= calls[k].at /\ calls[j].at < calls[k].at + 60000}

\* C6: within one request of the history or the quote-only variant no more
\* than 60 provider calls start in any window of 60 seconds.
C6_RateLimitKept ==
  variant \in {"history", "quote"} =>
    \A k \in DOMAIN calls : Cardinality(CallsInWindow(k)) <= 60

\* C7: in the history variant only the first min(n, 25) symbols of a universe
\* of n symbols are fetched; the response has universe_size = n and
\* screened_size = min(n, 25), and its note is non-null exactly if n > 25.
C7_Truncation ==
  (variant = "history" /\ ValidRequest) =>
    LET universe == request.universe.items
        n == Len(universe)
        m == IF n < 25 THEN n ELSE 25
    IN /\ symbols = SubSeq(universe, 1, m)
       /\ \A k \in DOMAIN calls :
            calls[k].index <= m /\ calls[k].symbol = universe[calls[k].index]
       /\ Succeeded =>
            /\ response.body.universe_size = n
            /\ response.body.screened_size = m
            /\ (response.body.note # Null <=> n > 25)

\* C7 witness: a universe of 30 symbols answered with screened_size 25 and a
\* note, after 25 symbols were fetched
C7_Witness ==
  /\ variant = "history" /\ Succeeded
  /\ Len(request.universe.items) = 30
  /\ response.body.screened_size = 25
  /\ response.body.note = TruncationNote
  /\ Len(calls) = 50

\* C8: a request whose action is not "screen", or whose universe is no array
\* or an empty one, is answered with 400 and no provider call is started.
C8_ValidationRejects ==
  (pc # "idle" /\ (\/ request.action # "screen"
                    \/ ~request.universe.isArray
                    \/ Len(request.universe.items) = 0)) =>
    /\ pc = "done"
    /\ response.status = 400
    /\ calls = <<>>
    /\ inflight = 0

\* C8 witness: a "screen" request with an empty universe has been rejected
C8_Witness ==
  /\ pc = "done"
  /\ request.action = "screen"
  /\ request.universe.isArray
  /\ Len(request.universe.items) = 0
  /\ response = ErrorResponse(400, "Universe must be a non-empty array")

\* C9: in the history variant, with an empty or absent condition list the
\* results are the fetched records, unchanged and in order, and count equals
\* valid_data.
C9_EmptyConditionsKeepAll ==
  (variant = "history" /\ ValidRequest /\ pc = "done"
     /\ (\/ request.conditions.kind = "absent"
         \/ request.conditions.kind = "array" /\ Len(request.conditions.items) = 0)) =>
    /\ Succeeded
    /\ response.body.results = stockData
    /\ response.body.count = Len(stockData)
    /\ response.body.count = response.body.valid_data

\* C9 witness: a request without conditions got back both of its records,
\* one of them without any history field
C9_Witness ==
  /\ variant = "history" /\ Succeeded
  /\ request.conditions.kind = "absent"
  /\ Len(response.body.results) = 2
  /\ response.body.results[2]["week52High"] = Null
  /\ response.body.results[2]["volume"] = Null

AllAttempted(m) ==
  \A k \in 1..m : \E j \in DOMAIN calls : calls[j].index = k /\ calls[j].api = "quote"

\* C12: in the history variant a request gets exactly one response, which
\* never changes once sent; a success response comes only after every symbol
\* of the truncated universe has been attempted; and when evaluation throws
\* after the fetch (conditions that are no array, at least one record) the
\* response is the 500 response and it carries no results.
C12_OneResponse ==
  /\ [](variant = "history" =>
         LET n == Len(request.universe.items)
             m == IF n < 25 THEN n ELSE 25
         IN /\ response.status \in {0, 200, 400, 500}
            /\ (response.status # 0) <=> (pc = "done")
            /\ response.status \in {200, 500} => AllAttempted(m) /\ inflight = 0
            /\ (ValidRequest /\ pc = "done" /\ request.conditions.kind = "other"
                  /\ Len(stockData) > 0) => response.status = 500
            /\ response.status = 500 => response.body = <<>>)
  /\ [][response.status # 0 => response' = response]_vars

\* C12 witness: conditions that are no array made evaluation throw after two
\* symbols had been fetched, and the request was answered with 500
C12_Witness ==
  /\ variant = "history" /\ pc = "done"
  /\ request.conditions.kind = "other"
  /\ Len(symbols) = 2 /\ Len(stockData) = 2
  /\ response = ErrorResponse(500, "Server error")

\* prices[from] + ... + prices[to]
RECURSIVE SumBetween(_, _, _)
SumBetween(prices, from, to) ==
  IF from > to THEN 0 ELSE prices[from] + SumBetween(prices, from + 1, to)

\* the trend of the reference: the mean of the last 5 points against the mean
\* of the 5 points that end period points before the most recent one
ReferenceTrend(prices, period) ==
  LET n == Len(prices)
      recent == SumBetween(prices, n - 4, n)
      baseline == SumBetween(prices, n - period - 4, n - period)
  IN IF n < period + 5 THEN "unknown"
     ELSE IF recent * 100 > baseline * 102 THEN "up"
     ELSE IF recent * 100 < baseline * 98 THEN "down"
     ELSE "sideways"

\* C13: for every series and period calculateTrend equals the reference:
\* "unknown" below period + 5 points, else "up" iff recent > baseline x 1.02,
\* "down" iff recent < baseline x 0.98, "sideways" otherwise, the baseline
\* being the mean of the 5 points that end period points before the last.
C13_TrendIsReference ==
  fnArgs.fn = "calculateTrend" =>
    fnResult = ReferenceTrend(fnArgs.prices, fnArgs.period)

\* C14: calculateSMA(s, p) is null when s has fewer than p points and is
\* otherwise the sum of the last p points of s divided by p.
C14_SmaIsMeanOfLast ==
  fnArgs.fn = "calculateSMA" =>
    LET s == fnArgs.prices
        p == fnArgs.period
        n == Len(s)
    IN IF n < p THEN fnResult = Null
       ELSE /\ fnResult.t = "number" /\ ~IsNaN(fnResult)
            /\ fnResult.v * p = SumBetween(s, n - p + 1, n) * fnResult.d

\* C14 witness: calculateSMA([10, 20, 30], 3) gave 20
C14_Witness ==
  /\ fnArgs = [fn |-> "calculateSMA", prices |-> <<10, 20, 30>>, period |-> 3]
  /\ StrictEq(fnResult, Num(20))

\* x is null, undefined or zero
Unusable(x) == x.t \in {"undefined", "null"} \/ (x.t = "number" /\ ~IsNaN(x) /\ x.v = 0)

\* x is no NaN and no string that spells NaN
Computed(x) == ~IsNaN(x) /\ x # Str("NaN")

\* C15: in the record of getStockDataWithTrend every percentage field is null
\* when the value it divides by is null, undefined or zero (changePercent by
\* the previous close, volumeRatio by avgVolume, pctFrom52High and
\* pctFrom52Low by the 52-week extremes), and none of them is NaN.
C15_GuardedPercentages ==
  (fnArgs.fn = "getStockDataWithTrend" /\ ~fnResult.isNull) =>
    LET r == fnResult.record
    IN /\ Unusable(Get(fnArgs.quote.data, "pc")) => r["changePercent"] = Null
       /\ Unusable(r["avgVolume"]) => r["volumeRatio"] = Null
       /\ Unusable(r["week52High"]) => r["pctFrom52High"] = Null
       /\ Unusable(r["week52Low"]) => r["pctFrom52Low"] = Null
       /\ \A f \in {"changePercent", "volumeRatio", "pctFrom52High", "pctFrom52Low"} :
            Computed(r[f])

\* C16: for a historical series of fewer than 41 points getStockDataWithTrend
\* gives weeklyTrend "unknown" and with it trendAlignment "mixed", whatever
\* the daily trend is.
C16_WeeklyUnknownBelow41 ==
  (fnArgs.fn = "getStockDataWithTrend" /\ ~fnResult.isNull
     /\ Len(fnArgs.candles.c) < 41) =>
    /\ fnResult.record["weeklyTrend"] = Str("unknown")
    /\ fnResult.record["trendAlignment"] = Str("mixed")

\* C16 witness: a series of 25 to 40 points with a daily trend "up" got the
\* weekly trend "unknown" and the alignment "mixed"
C16_Witness ==
  /\ fnArgs.fn = "getStockDataWithTrend" /\ ~fnResult.isNull
  /\ fnArgs.candles.s = "ok"
  /\ Len(fnArgs.candles.c) >= 25 /\ Len(fnArgs.candles.c) <= 40
  /\ fnResult.record["dailyTrend"] = Str("up")
  /\ fnResult.record["weeklyTrend"] = Str("unknown")
  /\ fnResult.record["trendAlignment"] = Str("mixed")

\* a is b with some of its elements left out
RECURSIVE IsSubsequence(_, _)
IsSubsequence(a, b) ==
  IF a = <<>> THEN TRUE
  ELSE IF b = <<>> THEN FALSE
  ELSE IF Head(a) = Head(b) THEN IsSubsequence(Tail(a), Tail(b))
  ELSE IsSubsequence(a, Tail(b))

\* C17: in every success response of the history variant count is the length
\* of results, count <= valid_data <= screened_size <= universe_size,
\* screened_size <= 25, and results is a subsequence, in order, of the
\* fetched records.
C17_ResponseCounts ==
  (variant = "history" /\ Succeeded) =>
    LET b == response.body
    IN /\ b.count = Len(b.results)
       /\ b.count <= b.valid_data
       /\ b.valid_data <= b.screened_size
       /\ b.screened_size <= b.universe_size
       /\ b.screened_size <= 25
       /\ b.valid_data = Len(stockData)
       /\ IsSubsequence(b.results, stockData)

\* C17 witness: of two fetched records, different from each other, a
\* condition kept both, and another condition kept one of two
C17_Witness ==
  /\ variant = "history" /\ Succeeded
  /\ request.conditions.kind = "array" /\ Len(request.conditions.items) > 0
  /\ response.body.valid_data = 2
  /\ response.body.count = 2
  /\ response.body.results[1] # response.body.results[2]

\* C18: in the history variant getStockDataBatch attempts the symbols of the
\* truncated universe once each, in index order; k symbols take k - 1 pacing
\* delays, none after the last; and when every call returns or fails and
\* every delay elapses, a valid request is answered.
C18_BatchWalk ==
  /\ [](variant = "history" /\ ValidRequest =>
         LET attempts == SelectSeq(calls, LAMBDA c : c.api = "quote")
             candles == SelectSeq(calls, LAMBDA c : c.api = "candle")
         IN /\ Len(attempts) = i
            /\ \A j \in DOMAIN attempts :
                 attempts[j].index = j /\ attempts[j].symbol = symbols[j]
            /\ \A j, k \in DOMAIN candles :
                 j < k => candles[j].index < candles[k].index
            /\ delays = i - 1
            /\ pc = "done" => i = Len(symbols) /\ delays = Len(symbols) - 1)
  /\ (ValidRequest ~> response.status # 0)

\* C18 witness: 25 symbols were fetched with 24 delays and the request was
\* answered
C18_Witness ==
  /\ variant = "history" /\ pc = "done" /\ Succeeded
  /\ Len(symbols) = 25
  /\ delays = 24
  /\ Len(calls) = 50

====
